---- MODULE Spec2Model ----
(***************************************************************************)
(* forge-tree (Python): the tree-text parser (parser/tree_parser.py), the  *)
(* file generator (generator/file_generator.py) and the item counter of    *)
(* the command line (cli.py).                                              *)
(*                                                                         *)
(* A line of text is a sequence of characters.  The characters the code    *)
(* tells apart are the tree glyphs, the blank characters, "/" and ".";     *)
(* every other token ("src", "main", "py", ...) stands for a non-empty run *)
(* of ordinary name characters.  Python indexes lists from 0, the          *)
(* sequences below from 1: lines[0] of the code is lines[1] here.          *)
(***************************************************************************)
EXTENDS Integers, Sequences, FiniteSets, TLC

VARIABLES content, parsed,
          structure, force_overwrite, has_callback, fs, pc, todo, cur,
          total_items, completed, events, gen_err

vars == <<content, parsed, structure, force_overwrite, has_callback, fs, pc,
          todo, cur, total_items, completed, events, gen_err>>

parserVars == <<content, parsed>>
genVars == <<structure, force_overwrite, has_callback, fs, pc, todo, cur,
             total_items, completed, events, gen_err>>

-----------------------------------------------------------------------------
(* Characters *)

TEE == "tee"
ELBOW == "elbow"
PIPE == "pipe"
DASH == "dash"
SP == " "
TAB == "tab"
SLASH == "/"
DOT == "."

Whitespace == {SP, TAB}
ConnectorChars == {TEE, ELBOW, PIPE}
SkippedChars == {DASH, SP, TAB}
TreeChars == {PIPE, TEE, ELBOW, DASH, SP, TAB}

(* Item kinds and error classes *)

FILE == "file"
DIRECTORY == "directory"

ForgeTreeError == "ForgeTreeError"
ParseError == "ParseError"
GenerationError == "GenerationError"
OSError == "OSError"

NoError == [kind |-> "none", msg |-> "", line |-> <<>>]
Raise(kind, msg, line) == [kind |-> kind, msg |-> msg, line |-> line]

-----------------------------------------------------------------------------
(* String helpers of the Python runtime *)

RECURSIVE LStrip(_, _)
LStrip(s, chars) ==
    IF s # <<>> /\ Head(s) \in chars THEN LStrip(Tail(s), chars) ELSE s

RECURSIVE RStrip(_, _)
RStrip(s, chars) ==
    IF s # <<>> /\ s[Len(s)] \in chars
    THEN RStrip(SubSeq(s, 1, Len(s) - 1), chars)
    ELSE s

Strip(s, chars) == LStrip(RStrip(s, chars), chars)

Contains(s, c) == \E k \in 1..Len(s) : s[k] = c

EndsWith(s, c) == s # <<>> /\ s[Len(s)] = c

RemoveChars(s, chars) == SelectSeq(s, LAMBDA c : c \notin chars)

-----------------------------------------------------------------------------
(* The parser *)

StructureItem(name, item_type) ==
    [name |-> name, item_type |-> item_type, children |-> <<>>,
     template |-> <<>>, content |-> <<>>]

ProjectStructure(root, items) ==
    [root |-> root, items |-> items, variables |-> <<>>]

ExtractRootName(line) ==
    LET name == RStrip(Strip(line, Whitespace), {SLASH}) IN
    IF name = <<>>
    THEN [name |-> name, err |-> Raise(ForgeTreeError, "Invalid root directory name", line)]
    ELSE [name |-> name, err |-> NoError]

RECURSIVE GetDepth(_)
GetDepth(line) ==
    IF line = <<>> THEN 0
    ELSE IF Head(line) \in ConnectorChars THEN 1 + GetDepth(Tail(line))
    ELSE IF Head(line) \in SkippedChars THEN GetDepth(Tail(line))
    ELSE 0

IsDirectoryName(c) == EndsWith(c, SLASH) \/ ~Contains(c, DOT)

LineContent(line) == Strip(RemoveChars(line, TreeChars), Whitespace)

ParseLine(line) ==
    LET c == LineContent(line) IN
    IF c = <<>>
    THEN [name |-> <<>>, is_directory |-> FALSE,
          err |-> Raise(ForgeTreeError, "Empty name in line", line)]
    ELSE [name |-> RStrip(c, {SLASH}), is_directory |-> IsDirectoryName(c),
          err |-> NoError]

NewItem(name, is_directory) ==
    StructureItem(name, IF is_directory THEN DIRECTORY ELSE FILE)

AttachWithoutPromotion(items, children) ==
    [items EXCEPT ![Len(items)] = [@ EXCEPT !.children = children]]

AttachChildren(items, children) ==
    [items EXCEPT ![Len(items)] =
        [@ EXCEPT !.children = children, !.item_type = DIRECTORY]]

ResumeAfterFirstChild(i, new_i) == i + 1

ResumeIndex(i, new_i) == new_i

RECURSIVE ParseStructure(_, _, _, _)
ParseStructure(lines, items, i, current_depth) ==
    IF i > Len(lines) THEN [items |-> items, i |-> i, err |-> NoError]
    ELSE
    LET line == lines[i] IN
    IF Strip(line, Whitespace) = <<>>
    THEN ParseStructure(lines, items, i + 1, current_depth)
    ELSE
    LET depth == GetDepth(line) IN
    IF depth < current_depth
    THEN [items |-> items, i |-> i, err |-> NoError]
    ELSE IF depth > current_depth
    THEN IF items = <<>>
         THEN [items |-> <<>>, i |-> i,
               err |-> Raise(ForgeTreeError, "Invalid tree structure at line", line)]
         ELSE LET sub == ParseStructure(lines, <<>>, i, depth) IN
              IF sub.err # NoError
              THEN [items |-> <<>>, i |-> sub.i, err |-> sub.err]
              ELSE ParseStructure(lines, AttachChildren(items, sub.items),
                                  ResumeIndex(i, sub.i), current_depth)
    ELSE LET pl == ParseLine(line) IN
         IF pl.err # NoError
         THEN [items |-> <<>>, i |-> i, err |-> pl.err]
         ELSE ParseStructure(lines, Append(items, NewItem(pl.name, pl.is_directory)),
                             i + 1, current_depth)

RetainedLines(text) ==
    LET kept == SelectSeq(text, LAMBDA l : Strip(l, Whitespace) # <<>>) IN
    [k \in 1..Len(kept) |-> RStrip(kept[k], Whitespace)]

Failed(err) == [status |-> "error", err |-> err, structure |-> ProjectStructure(<<>>, <<>>)]
Returned(s) == [status |-> "ok", err |-> NoError, structure |-> s]
NotParsed == [status |-> "none", err |-> NoError, structure |-> ProjectStructure(<<>>, <<>>)]

ParseText(text) ==
    LET lines == RetainedLines(text) IN
    IF lines = <<>> THEN Failed(Raise(ForgeTreeError, "Empty input", <<>>))
    ELSE
    LET root == ExtractRootName(lines[1]) IN
    IF root.err # NoError THEN Failed(root.err)
    ELSE IF Len(lines) > 1
    THEN LET r == ParseStructure(lines, <<>>, 2, 0) IN
         IF r.err # NoError THEN Failed(r.err)
         ELSE Returned(ProjectStructure(root.name, r.items))
    ELSE Returned(ProjectStructure(root.name, <<>>))

-----------------------------------------------------------------------------
(* Trees *)

RECURSIVE SumCounts(_)
RECURSIVE CountItems(_)
CountItems(items) == Len(items) + SumCounts([k \in 1..Len(items) |-> items[k].children])

SumCounts(lists) ==
    IF lists = <<>> THEN 0 ELSE CountItems(Head(lists)) + SumCounts(Tail(lists))

RECURSIVE PreOrderNames(_)
PreOrderNames(items) ==
    IF items = <<>> THEN <<>>
    ELSE <<Head(items).name>> \o PreOrderNames(Head(items).children)
                              \o PreOrderNames(Tail(items))

\* The positions of the nodes of a tree: <<2, 1>> is the first child of the
\* second top-level item.
RECURSIVE Positions(_)
Positions(items) ==
    UNION { {<<k>>} \cup { <<k>> \o p : p \in Positions(items[k].children) }
            : k \in 1..Len(items) }

RECURSIVE NodeAt(_, _)
NodeAt(items, pos) ==
    IF Len(pos) = 1 THEN items[pos[1]]
    ELSE NodeAt(items[pos[1]].children, Tail(pos))

ParentPos(pos) == SubSeq(pos, 1, Len(pos) - 1)

InTree(items, name) == \E p \in Positions(items) : NodeAt(items, p).name = name

PosOf(items, name) == CHOOSE p \in Positions(items) : NodeAt(items, p).name = name

-----------------------------------------------------------------------------
(* Inputs of the parser *)

MaxBody == 3
MaxDepth == 2

Chunk(k) == <<"a", "b", "c", "d", "e", "f", "g">>[k]

Styles == {"plain", "dotted", "slash"}

StyledName(k, style) ==
    CASE style = "plain" -> <<Chunk(k)>>
      [] style = "dotted" -> <<Chunk(k), DOT, "x">>
      [] style = "slash" -> <<Chunk(k), SLASH>>

Spaces(n) == [k \in 1..n |-> SP]

RECURSIVE Guides(_, _)
Guides(d, pad) == IF d = 0 THEN <<>> ELSE <<PIPE>> \o Spaces(pad) \o Guides(d - 1, pad)

\* A line prefix with d connector glyphs, drawn with pad blanks after each
\* vertical guide; a depth-0 line is indented by the blanks alone.
Prefix(d, pad) ==
    IF d = 0 THEN Spaces(pad)
    ELSE Guides(d - 1, pad) \o <<TEE, DASH, DASH, SP>>

Pads == {0, 3}

BodyOf(f, pad) == [k \in DOMAIN f |-> Prefix(f[k][1], pad) \o StyledName(k, f[k][2])]

BodyCases ==
    { <<<<"r", SLASH>>>> \o BodyOf(f, pad) :
        f \in UNION { [1..n -> (0..MaxDepth) \X Styles] : n \in 0..MaxBody },
        pad \in Pads }

\* Body lines at depths 0, 1, 2, 1, 0.
DropDepths == <<0, 1, 2, 1, 0>>

DropCases ==
    { <<<<"r", SLASH>>>> \o BodyOf([k \in 1..5 |-> <<DropDepths[k], st[k]>>], pad) :
        st \in [1..5 -> Styles], pad \in Pads }

RootLines ==
    { <<"my-project", SLASH>>, <<"my-app">>, <<SLASH>>, <<SLASH, SLASH>>,
      <<SP, SLASH, SP>>, <<SLASH, SP, SLASH>>, <<SP, SP>>, <<TAB>>,
      <<TAB, "r", SLASH, SLASH, SP>> }

RootTails == { <<>>, <<<<"foo", SLASH>>>>, <<<<"foo", SLASH>>, <<"bar">>>>, <<<<SP>>>> }

RootCases == { <<r>> \o t : r \in RootLines, t \in RootTails } \cup {<<>>}

\* tests/test_parser.py, test_nested_structure
MyAppText ==
    << <<"my-app", SLASH>>,
       <<TEE, DASH, DASH, SP, "src", SLASH>>,
       <<PIPE, SP, SP, SP, TEE, DASH, DASH, SP, "main", DOT, "py">>,
       <<PIPE, SP, SP, SP, ELBOW, DASH, DASH, SP, "utils", SLASH>>,
       <<PIPE, SP, SP, SP, SP, SP, SP, SP, ELBOW, DASH, DASH, SP, "helpers", DOT, "py">>,
       <<ELBOW, DASH, DASH, SP, "tests", SLASH>> >>

\* tests/test_parser.py, test_simple_structure
SimpleText ==
    << <<"my-project", SLASH>>,
       <<TEE, DASH, DASH, SP, "src", SLASH, "main", DOT, "py">>,
       <<ELBOW, DASH, DASH, SP, "README", DOT, "md">> >>

\* The same entries written without connector glyphs.
SimplePlainText ==
    << <<"my-project", SLASH>>,
       <<"src", SLASH, "main", DOT, "py">>,
       <<"README", DOT, "md">> >>

ExampleCases ==
    { MyAppText, SimpleText, SimplePlainText,
      << <<"r", SLASH>>, <<>>, <<"a">>, <<SP, TAB>>, <<PIPE, SP, "b", DOT, "x", SP>> >>,
      << <<"r", SLASH>>, <<"a">>, <<PIPE, DASH, DASH>> >>,
      << <<"r", SLASH>>, <<"a">>, <<PIPE, PIPE, PIPE, SP, "b">>, <<"c">> >> }

Contents == BodyCases \cup DropCases \cup RootCases \cup ExampleCases

-----------------------------------------------------------------------------
(* The parser as a state machine: one call of TreeParser.parse *)

IdleGenerator ==
    /\ structure = ProjectStructure(<<>>, <<>>)
    /\ force_overwrite = FALSE
    /\ has_callback = FALSE
    /\ fs = <<>>
    /\ pc = "idle"
    /\ todo = <<>>
    /\ cur = <<>>
    /\ total_items = 0
    /\ completed = 0
    /\ events = <<>>
    /\ gen_err = NoError

InitParse ==
    /\ content \in Contents
    /\ parsed = NotParsed
    /\ IdleGenerator

Parse ==
    /\ parsed.status = "none"
    /\ parsed' = ParseText(content)
    /\ UNCHANGED <<content, genVars>>

NextParse == Parse

SpecParse == InitParse /\ [][NextParse]_vars

-----------------------------------------------------------------------------
(* The file system the generator writes to.  A path is the sequence of its
   components below the output directory; fs maps each existing path to
   its kind and, for a file, its content. *)

DirEntry == [kind |-> "dir", content |-> ""]
FileEntry(text) == [kind |-> "file", content |-> text]

Exists(files, path) == path = <<>> \/ path \in DOMAIN files
IsDir(files, path) == path = <<>> \/ (path \in DOMAIN files /\ files[path].kind = "dir")

Prefixes(path) == { SubSeq(path, 1, k) : k \in 1..Len(path) }

\* Path.mkdir(parents=True, exist_ok=True)
MkdirParents(files, path) ==
    IF \E q \in Prefixes(path) : q \in DOMAIN files /\ files[q].kind = "file"
    THEN [fs |-> files, err |-> Raise(OSError, "Not a directory", path)]
    ELSE [fs |-> [q \in DOMAIN files \cup Prefixes(path) |->
                    IF q \in DOMAIN files THEN files[q] ELSE DirEntry],
          err |-> NoError]

\* base_path / item.name: a name holding "/" spans several components.
RECURSIVE SplitPath(_, _)
SplitPath(name, part) ==
    IF name = <<>> THEN (IF part = <<>> THEN <<>> ELSE <<part>>)
    ELSE IF Head(name) = SLASH
         THEN (IF part = <<>> THEN <<>> ELSE <<part>>) \o SplitPath(Tail(name), <<>>)
         ELSE SplitPath(Tail(name), Append(part, Head(name)))

JoinPath(base_path, name) == base_path \o SplitPath(name, <<>>)

CreateDirectory(files, path) ==
    IF Exists(files, path) /\ ~IsDir(files, path)
    THEN [fs |-> files, err |-> Raise(ForgeTreeError, "Path exists but is not a directory", path)]
    ELSE MkdirParents(files, path)

CreateFile(files, path, text, force) ==
    IF Exists(files, path) /\ ~force
    THEN [fs |-> files, err |-> Raise(ForgeTreeError, "File already exists", path)]
    ELSE LET made == MkdirParents(files, ParentPos(path)) IN
         IF made.err # NoError THEN [fs |-> files, err |-> made.err]
         ELSE IF IsDir(made.fs, path)
         THEN [fs |-> made.fs, err |-> Raise(OSError, "Is a directory", path)]
         ELSE [fs |-> [q \in DOMAIN made.fs \cup {path} |->
                         IF q = path THEN FileEntry(text) ELSE made.fs[q]],
               err |-> NoError]

\* Templates jinja2 refuses.
BadTemplates == {"{{ broken"}

RenderContent(item, variables) ==
    IF item.template # <<>>
    THEN IF item.template[1] \in BadTemplates
         THEN [text |-> "", err |-> Raise(ForgeTreeError, "Template error", item.name)]
         ELSE [text |-> "rendered", err |-> NoError]
    ELSE [text |-> IF item.content = <<>> THEN "" ELSE item.content[1], err |-> NoError]

\* The calls _generate_items makes for a list of items, in order: each
\* carries the path of its parent, the progress callback it was handed and
\* the position of the item in the tree.
Frames(items, base_path, progress_callback, pos) ==
    [k \in 1..Len(items) |->
        [item |-> items[k], base_path |-> base_path,
         progress_callback |-> progress_callback, pos |-> Append(pos, k)]]

\* The callback a directory's children would get were it not handed on.
PassNoCallback(progress_callback) == FALSE

\* The callback _generate_items hands to the call for a directory's children.
CallbackForChildren(progress_callback) == progress_callback

ItemPath(frame) == JoinPath(frame.base_path, frame.item.name)

NoFrame == <<>>

-----------------------------------------------------------------------------
(* Inputs of the generator *)

Leaf(name, item_type) == StructureItem(name, item_type)
Dir(name, children) == [StructureItem(name, DIRECTORY) EXCEPT !.children = children]

\* The tree of the my-app example (spec section 8, test_nested_structure).
MyAppItems ==
    << Dir(<<"src">>, << Leaf(<<"main", DOT, "py">>, FILE),
                         Dir(<<"utils">>, << Leaf(<<"helpers", DOT, "py">>, FILE) >>) >>),
       Leaf(<<"tests">>, DIRECTORY) >>

WithText(item, text) == [item EXCEPT !.content = <<text>>]
WithTemplate(item, tpl) == [item EXCEPT !.template = <<tpl>>]

GenTexts ==
    { SimplePlainText,
      << <<"r", SLASH>>, <<"a">>, <<TEE, DASH, DASH, SP, "b", DOT, "x">>,
         <<ELBOW, DASH, DASH, SP, "c", SLASH>>, <<"d", DOT, "x">> >>,
      << <<"r", SLASH>>, <<"a", DOT, "x">>, <<"a", DOT, "x">>, <<"b">> >>,
      << <<"r", SLASH>>, <<"a", DOT, "x", SLASH>>, <<"a", DOT, "x">> >>,
      << <<"r", SLASH>>, <<"d", DOT, "x">>, <<"d", DOT, "x", SLASH>> >>,
      << <<"r", SLASH>> >> }

BuiltStructures ==
    { ProjectStructure(<<"my-app">>, MyAppItems),
      ProjectStructure(<<"r">>,
          << WithText(Leaf(<<"d", DOT, "x">>, FILE), "text"),
             Dir(<<"a">>, << WithTemplate(Leaf(<<"t", DOT, "x">>, FILE), "{{ name }}") >>),
             WithTemplate(Leaf(<<"u", DOT, "x">>, FILE), "{{ broken"),
             Leaf(<<"v">>, DIRECTORY) >>) }

GenStructures ==
    { ParseText(t).structure : t \in { u \in GenTexts : ParseText(u).status = "ok" } }
        \cup BuiltStructures

InitialFileSystems ==
    { <<>>,
      (<<<<"r">>>> :> DirEntry) @@ (<<<<"r">>, <<"a">>>> :> DirEntry)
          @@ (<<<<"r">>, <<"d", DOT, "x">>>> :> FileEntry("old")),
      (<<<<"r">>>> :> FileEntry("old")),
      (<<<<"r">>>> :> DirEntry) @@ (<<<<"r">>, <<"a">>>> :> FileEntry("old")),
      (<<<<"my-app">>>> :> DirEntry) @@ (<<<<"my-app">>, <<"src">>>> :> DirEntry)
          @@ (<<<<"my-app">>, <<"src">>, <<"main", DOT, "py">>>> :> FileEntry("old")),
      (<<<<"my-project">>>> :> DirEntry) @@ (<<<<"my-project">>, <<"src">>>> :> FileEntry("old")) }

-----------------------------------------------------------------------------
(* The generator as a state machine: one run of FileGenerator.generate
   under the forge command.  pc is "idle" before the call, "items" between
   two items, "process" after an item's progress callback, "done" when
   generate has returned and "failed" when it has raised. *)

InitGen ==
    /\ content = <<>>
    /\ parsed = NotParsed
    /\ structure \in GenStructures
    /\ force_overwrite \in BOOLEAN
    /\ has_callback \in BOOLEAN
    /\ fs \in InitialFileSystems
    /\ pc = "idle"
    /\ todo = <<>>
    /\ cur = NoFrame
    /\ total_items = 0
    /\ completed = 0
    /\ events = <<>>
    /\ gen_err = NoError

\* forge counts the items, then generate creates the root directory.
Generate ==
    /\ pc = "idle"
    /\ total_items' = CountItems(structure.items)
    /\ LET made == CreateDirectory(fs, <<structure.root>>) IN
         /\ fs' = made.fs
         /\ gen_err' = made.err
         /\ IF made.err # NoError
            THEN pc' = "failed" /\ todo' = <<>>
            ELSE /\ pc' = "items"
                 /\ todo' = Frames(structure.items, <<structure.root>>, has_callback, <<>>)
    /\ UNCHANGED <<parserVars, structure, force_overwrite, has_callback, cur,
                   completed, events>>

\* The head of the loop body: the callback, before the item is processed.
NotifyProgress ==
    /\ pc = "items"
    /\ todo # <<>>
    /\ cur' = Head(todo)
    /\ todo' = Tail(todo)
    /\ IF Head(todo).progress_callback
       THEN /\ completed' = completed + 1
            /\ events' = Append(events, [what |-> "callback", pos |-> Head(todo).pos])
       ELSE UNCHANGED <<completed, events>>
    /\ pc' = "process"
    /\ UNCHANGED <<parserVars, structure, force_overwrite, has_callback, fs,
                   total_items, gen_err>>

CreateDirectoryItem ==
    /\ pc = "process"
    /\ cur.item.item_type = DIRECTORY
    /\ LET made == CreateDirectory(fs, ItemPath(cur)) IN
         /\ fs' = made.fs
         /\ gen_err' = made.err
         /\ IF made.err # NoError
            THEN pc' = "failed" /\ UNCHANGED <<todo, events>>
            ELSE /\ pc' = "items"
                 /\ events' = Append(events, [what |-> "create", pos |-> cur.pos])
                 /\ todo' = Frames(cur.item.children, ItemPath(cur),
                                   CallbackForChildren(cur.progress_callback),
                                   cur.pos) \o todo
    /\ UNCHANGED <<parserVars, structure, force_overwrite, has_callback, cur,
                   total_items, completed>>

CreateFileItem ==
    /\ pc = "process"
    /\ cur.item.item_type # DIRECTORY
    /\ LET text == RenderContent(cur.item, structure.variables)
           made == IF text.err # NoError THEN [fs |-> fs, err |-> text.err]
                   ELSE CreateFile(fs, ItemPath(cur), text.text, force_overwrite)
       IN
         /\ fs' = made.fs
         /\ gen_err' = made.err
         /\ IF made.err # NoError
            THEN pc' = "failed" /\ UNCHANGED events
            ELSE /\ pc' = "items"
                 /\ events' = Append(events, [what |-> "create", pos |-> cur.pos])
    /\ UNCHANGED <<parserVars, structure, force_overwrite, has_callback, cur,
                   todo, total_items, completed>>

Return ==
    /\ pc = "items"
    /\ todo = <<>>
    /\ pc' = "done"
    /\ UNCHANGED <<parserVars, structure, force_overwrite, has_callback, fs, todo,
                   cur, total_items, completed, events, gen_err>>

NextGen ==
    \/ Generate
    \/ NotifyProgress
    \/ CreateDirectoryItem
    \/ CreateFileItem
    \/ Return

SpecGen == InitGen /\ [][NextGen]_vars

-----------------------------------------------------------------------------
(* What the claims about the parser speak of *)

Lines == RetainedLines(content)
BodyLen == IF Lines = <<>> THEN 0 ELSE Len(Lines) - 1
BodyLine(k) == Lines[k + 1]
BodyDepth(k) == GetDepth(BodyLine(k))
BodyName(k) == ParseLine(BodyLine(k)).name
BodyDepths == [k \in 1..BodyLen |-> BodyDepth(k)]
DistinctBodyNames ==
    \A j, k \in 1..BodyLen : j # k => BodyName(j) # BodyName(k)
ParseDone == parsed.status # "none"
ParsedOk == parsed.status = "ok"
Items == parsed.structure.items
InResult(k) == InTree(Items, BodyName(k))
BodyPos(k) == PosOf(Items, BodyName(k))
BodyNode(k) == NodeAt(Items, BodyPos(k))
DeeperLineFollows(k) == k < BodyLen /\ BodyDepth(k + 1) > BodyDepth(k)

\* C1: the conventionally drawn my-app tree parses, to root my-app with the
\* two top-level items src (Directory: main.py File, utils Directory holding
\* helpers.py File) and tests (Directory, no children).
C1_ConventionalTreeParses ==
    (content = MyAppText /\ ParseDone)
        => parsed = Returned(ProjectStructure(<<"my-app">>, MyAppItems))

\* C2: in every accepted input a depth-2 line is a grandchild of the depth-0
\* line it follows (the nearest depth-0 line before it), whatever the blanks.
C2_DepthTwoIsGrandchild ==
    (ParsedOk /\ DistinctBodyNames) =>
        \A j, k \in 1..BodyLen :
            ( /\ j < k
              /\ BodyDepth(j) = 0
              /\ BodyDepth(k) = 2
              /\ \A m \in (j + 1)..(k - 1) : BodyDepth(m) # 0 )
            => /\ InResult(j)
               /\ InResult(k)
               /\ Len(BodyPos(k)) = Len(BodyPos(j)) + 2
               /\ SubSeq(BodyPos(k), 1, Len(BodyPos(j))) = BodyPos(j)

\* C3: body depths 0, 1, 2, 1, 0 give the tree n1{n2{n3}, n4}, n5; and in
\* every accepted input a line shallower than its predecessor joins the
\* sibling list of the nearest earlier line of its own depth that no
\* shallower line separates from it, as that line's next sibling.
C3_DepthDropJoinsOwnGroup ==
    /\ (ParseDone /\ BodyDepths = DropDepths /\ \A k \in 1..BodyLen : BodyName(k) # <<>>)
        => /\ ParsedOk
           /\ Len(Items) = 2
           /\ Items[1].name = BodyName(1)
           /\ Items[2].name = BodyName(5)
           /\ Items[2].children = <<>>
           /\ Len(Items[1].children) = 2
           /\ Items[1].children[1].name = BodyName(2)
           /\ Items[1].children[2].name = BodyName(4)
           /\ Items[1].children[2].children = <<>>
           /\ Len(Items[1].children[1].children) = 1
           /\ Items[1].children[1].children[1].name = BodyName(3)
           /\ Items[1].children[1].children[1].children = <<>>
    /\ (ParsedOk /\ DistinctBodyNames) =>
        \A j, k \in 1..BodyLen :
            ( /\ j < k
              /\ BodyDepth(k) < BodyDepth(k - 1)
              /\ BodyDepth(j) = BodyDepth(k)
              /\ \A m \in (j + 1)..(k - 1) : BodyDepth(m) > BodyDepth(k) )
            => /\ InResult(j) <=> InResult(k)
               /\ InResult(k) =>
                    /\ ParentPos(BodyPos(k)) = ParentPos(BodyPos(j))
                    /\ BodyPos(k)[Len(BodyPos(k))] = BodyPos(j)[Len(BodyPos(j))] + 1

C3_Witness ==
    /\ ParsedOk
    /\ BodyDepths = DropDepths
    /\ Items[1].children[1].children # <<>>
    /\ Len(Items) = 2

\* C4: in a returned structure a File has no children and a node with
\* children is a Directory; a dotted line without a trailing "/" is a File
\* when no deeper line follows it and a Directory when one does.
C4_KindMatchesChildren ==
    ParsedOk =>
        /\ \A p \in Positions(Items) :
              /\ NodeAt(Items, p).item_type = FILE => NodeAt(Items, p).children = <<>>
              /\ NodeAt(Items, p).children # <<>> => NodeAt(Items, p).item_type = DIRECTORY
        /\ DistinctBodyNames =>
              \A k \in 1..BodyLen :
                  (InResult(k) /\ ~IsDirectoryName(LineContent(BodyLine(k)))) =>
                      /\ ~DeeperLineFollows(k) =>
                            /\ BodyNode(k).item_type = FILE
                            /\ BodyNode(k).children = <<>>
                      /\ DeeperLineFollows(k) =>
                            /\ BodyNode(k).item_type = DIRECTORY
                            /\ BodyNode(k).children # <<>>

C4_Witness ==
    /\ ParsedOk
    /\ DistinctBodyNames
    /\ \E k \in 1..BodyLen :
          /\ InResult(k)
          /\ ~IsDirectoryName(LineContent(BodyLine(k)))
          /\ DeeperLineFollows(k)
          /\ BodyNode(k).item_type = DIRECTORY
          /\ BodyNode(k).children # <<>>

\* C5: a first body line of depth 1, no depth-0 sibling before it, makes
\* parse fail with a ParseError raised at that line, and no structure.
C5_OrphanLineRaisesParseError ==
    ( /\ ParseDone
      /\ BodyLen >= 1
      /\ ExtractRootName(Lines[1]).err = NoError
      /\ BodyDepth(1) = 1 )
    => /\ parsed.status = "error"
       /\ parsed.err.kind = ParseError
       /\ parsed.err.line = BodyLine(1)
       /\ parsed.structure = ProjectStructure(<<>>, <<>>)

OnlyBlanksAndSlashes(line) == \A k \in 1..Len(line) : line[k] \in Whitespace \cup {SLASH}

\* C6: line 1 "my-project/" gives root my-project; a line 1 made only of
\* blanks and "/" makes parse fail with a ParseError.
C6_RootNameOrParseError ==
    (ParseDone /\ content # <<>>) =>
        /\ (ParsedOk /\ content[1] = <<"my-project", SLASH>>) =>
              parsed.structure.root = <<"my-project">>
        /\ OnlyBlanksAndSlashes(content[1]) =>
              /\ parsed.status = "error"
              /\ parsed.err.kind = ParseError

\* C9: an entry written dir/file.ext becomes an item named by its first
\* path component, of kind Directory, one item per top-level body line.
C9_PathEntryBecomesDirectory ==
    (ParseDone /\ content \in {SimpleText, SimplePlainText}) =>
        /\ ParsedOk
        /\ parsed.structure.root = <<"my-project">>
        /\ Len(Items) = 2
        /\ Items[1].name = <<"src">>
        /\ Items[1].item_type = DIRECTORY

\* C10: a successful parse drops and duplicates no body line: the tree has
\* as many nodes as there are body lines, in source order when walked in
\* pre-order.
C10_NoLineDropped ==
    ParsedOk =>
        /\ CountItems(Items) = BodyLen
        /\ PreOrderNames(Items) = [k \in 1..BodyLen |-> BodyName(k)]

-----------------------------------------------------------------------------
(* What the claims about the generator speak of *)

CallbackEvents == { k \in 1..Len(events) : events[k].what = "callback" }
Notified(pos) == \E k \in CallbackEvents : events[k].pos = pos

FileCollision ==
    /\ pc = "process"
    /\ cur.item.item_type = FILE
    /\ ~force_overwrite
    /\ Exists(fs, ItemPath(cur))

\* C8: without force, a File node whose path exists makes generate fail with
\* a GenerationError; the file system is left as it was at that moment
\* (existing content kept, earlier paths not rolled back) and nothing more
\* is processed.
C8_OverwriteGuardRaisesGenerationError ==
    [][ /\ FileCollision =>
            /\ pc' = "failed"
            /\ gen_err'.kind = GenerationError
            /\ fs' = fs
            /\ todo' = todo
            /\ events' = events
        /\ pc = "failed" => UNCHANGED vars ]_vars

====
